---- MODULE Spec2Model ----
(***************************************************************************)
(* A model of the PDF chat backend: the ingestion pipeline                 *)
(* (services/documentService.js), the duplicate check and the upload       *)
(* routes (routes/documentRoutes.js), the retention sweep                  *)
(* (services/cleanupService.js), the query path (services/chatService.js)  *)
(* and the collection bootstrap (utils/qdrantClient.js).                   *)
(*                                                                         *)
(* Strings are sequences of one-character strings.  JavaScript values that *)
(* the code compares with === are tagged tuples, <<"uuid", n>> for a       *)
(* uuidv4 string and <<"num", n>> for a number, so that a number never     *)
(* equals a string.                                                        *)
(***************************************************************************)
EXTENDS Integers, Sequences, FiniteSets, TLC

\* ------------------------------------------------------------------ bounds

\* uuidv4() draws from Uuid(1) .. Uuid(MaxUuid).
MaxUuid == 3
\* The clock advances at most MaxTicks times.
MaxTicks == 1
\* The longest text the chunker specification splits.
MaxTextLen == 4500
\* How often the upsert specification upserts one chunk.
MaxRepeat == 2

\* --------------------------------------------------------------- constants

ONE_DAY_MS == 86400000
chunkSize == 2000
overlap == 200
batchSize == 5
DUPLICATE_SCROLL_LIMIT == 100
CLEANUP_SCROLL_LIMIT == 100
VECTOR_SCROLL_LIMIT == 1000
METADATA_FALLBACK_SCROLL_LIMIT == 100
LIST_SCROLL_LIMIT == 100
SEARCH_LIMIT == 3
FALLBACK_SEARCH_LIMIT == 20

vectorCollection == "document_vectors"
metadataCollection == "document_metadata"

\* ----------------------------------------------------------------- strings

Digits == {"0", "1", "2", "3", "4", "5", "6", "7", "8", "9"}
LineTerminators == {"\n", "\r"}

Min(a, b) == IF a < b THEN a ELSE b

\* `${n}` for a non-negative integer n.
RECURSIVE NumberToString(_)
NumberToString(n) ==
  LET d == <<"0", "1", "2", "3", "4", "5", "6", "7", "8", "9">>[(n % 10) + 1]
  IN IF n < 10 THEN <<d>> ELSE Append(NumberToString(n \div 10), d)

HasPrefix(s, p) == Len(s) >= Len(p) /\ SubSeq(s, 1, Len(p)) = p

\* The index of the last "/" of s, 0 when there is none.
LastSlash(s) ==
  LET at == {i \in 1..Len(s) : s[i] = "/"}
  IN IF at = {} THEN 0 ELSE CHOOSE i \in at : \A j \in at : j <= i

\* source.split('/') and its last part.
LastPathPart(s) == SubSeq(s, LastSlash(s) + 1, Len(s))

\* path.dirname
Dirname(s) == SubSeq(s, 1, LastSlash(s) - 1)

\* filename.replace(/^\d+-/, '')
StripTimestampPrefix(s) ==
  LET nd == CHOOSE n \in 0..Len(s) :
              /\ \A i \in 1..n : s[i] \in Digits
              /\ (n < Len(s) => s[n + 1] \notin Digits)
  IN IF nd >= 1 /\ nd < Len(s) /\ s[nd + 1] = "-"
       THEN SubSeq(s, nd + 2, Len(s))
       ELSE s

\* source.match(/^https?:\/\/.+/)
MatchesHttpUrl(s) ==
  \E p \in {<<"h", "t", "t", "p", ":", "/", "/">>,
            <<"h", "t", "t", "p", "s", ":", "/", "/">>} :
    /\ HasPrefix(s, p)
    /\ Len(s) > Len(p)
    /\ s[Len(p) + 1] \notin LineTerminators

\* os.tmpdir()
TmpDir == <<"/", "t", "m", "p">>

\* path.join(tempDir, `${Date.now()}-${originalFilename}`)
TempFilePath(t, originalFilename) ==
  TmpDir \o <<"/">> \o NumberToString(t) \o <<"-">> \o originalFilename

\* ------------------------------------------------------------------ values

Uuid(n) == <<"uuid", n>>
Num(n) == <<"num", n>>
Uuids == {Uuid(n) : n \in 1..MaxUuid}

\* crypto.createHash('sha256').update(apiKey).digest('hex')
Sha256Hex(apiKey) == <<"sha256", apiKey>>

\* new Date(t).toISOString(): the calendar day and the time of day.
ToISOString(t) == [day |-> t \div ONE_DAY_MS, ms |-> t % ONE_DAY_MS]
\* new Date(iso).getTime()
DateParse(iso) == iso.day * ONE_DAY_MS + iso.ms

\* `${documentId}_${i + idx}`
PointIdStr(documentId, k) == <<"str", documentId[2], k>>

\* parseInt(md5(pointIdStr).substring(0, 8), 16): a fixed function of the
\* string into a finite id space.  The 2^32 ids are scaled down so that two
\* different strings can share an id within the model's bounds: the chunks
\* of Uuid(n) and Uuid(n + 2) share their ids.
derivePointId(pointIdStr) == ((pointIdStr[2] % 2) * 8 + pointIdStr[3]) % 16

\* parseInt(md5(documentId).substring(0, 8), 16), scaled the same way:
\* Uuid(n) and Uuid(n + 2) share their metadata id.
deriveMetadataId(documentId) == documentId[2] % 2

\* ----------------------------------------------------------------- chunker

\* The loop with i += chunkSize: windows that do not overlap.
RECURSIVE SplitFromNoOverlap(_, _)
SplitFromNoOverlap(i, length) ==
  IF i < length
    THEN <<(<<i, Min(i + chunkSize, length)>>)>>
           \o SplitFromNoOverlap(i + chunkSize, length)
    ELSE <<>>

\* for (let i = 0; i < text.length; i += chunkSize - overlap):
\* the <<start, end>> of text.substring(i, i + chunkSize), empty ones dropped.
RECURSIVE SplitFrom(_, _)
SplitFrom(i, length) ==
  IF i < length
    THEN LET end == Min(i + chunkSize, length)
         IN (IF end - i > 0 THEN <<(<<i, end>>)>> ELSE <<>>)
              \o SplitFrom(i + (chunkSize - overlap), length)
    ELSE <<>>

SplitRanges(length) == SplitFrom(0, length)

\* The chunks without their first character: text.substring(i + 1, ...).
SplitTextLateStart(text) ==
  LET r == SplitRanges(Len(text))
  IN [k \in 1..Len(r) |-> SubSeq(text, r[k][1] + 2, r[k][2])]

\* The pageContent of every element of splitDocs.
SplitText(text) ==
  LET r == SplitRanges(Len(text))
  IN [k \in 1..Len(r) |-> SubSeq(text, r[k][1] + 1, r[k][2])]

\* ------------------------------------------------------------ vector store

\* A collection is a set of points [id, payload] with pairwise distinct ids.

\* qdrantClient.upsert: a point replaces the stored point of the same id;
\* the points of one call are applied in order.
RECURSIVE Upsert(_, _)
Upsert(coll, points) ==
  IF points = <<>>
    THEN coll
    ELSE Upsert({q \in coll : q.id # Head(points).id} \cup {Head(points)},
                Tail(points))

\* The points of a collection in the store's order (ascending id).
RECURSIVE SortById(_)
SortById(coll) ==
  IF coll = {}
    THEN <<>>
    ELSE LET p == CHOOSE x \in coll : \A y \in coll : x.id <= y.id
         IN <<p>> \o SortById(coll \ {p})

\* qdrantClient.scroll(collection, {limit}): the first `limit` points.
\* `ahead` points of documents the model does not track come first.
Scroll(coll, limit, ahead) ==
  LET all == SortById(coll)
      room == IF limit > ahead THEN limit - ahead ELSE 0
  IN SubSeq(all, 1, Min(room, Len(all)))

\* qdrantClient.delete(collection, {points: ids})
DeletePoints(coll, ids) == {q \in coll : q.id \notin ids}

\* qdrantClient.delete(collection, {filter: {must: [{key, match: {value}}]}})
DeleteByDocumentId(coll, value) == {q \in coll : q.payload.documentId # value}

\* ensureCollection: creates the collection when it is missing.
ensureCollection(existing, name) == existing \cup {name}

\* ------------------------------------------------------------------ inputs

None == <<"none", 0>>
NoKey == ""
ApiKeys == {"k1", "k2"}
PdfNames == {<<"7", "-", "a">>}
UrlA == <<"h", "t", "t", "p", ":", "/", "/", "a">>
Urls == {UrlA}
\* Arguments of a direct call of processDocument.
DirectSources == {UrlA, <<"f", "t", "p", ":", "/", "/", "a">>,
                  <<"/", "t", "m", "p", "/", "9", "-", "x">>}
DirectTypes == {"pdf", "url", "docx"}
\* The lengths of the text a loader extracts: no chunk, or six chunks (two
\* batches).
TextLengths == {0, batchSize * (chunkSize - overlap) + 1}
Uploads == {"u1", "u2"}

\* ------------------------------------------------------------------- state

VARIABLES
  now,          \* Date.now()
  ticks,        \* how often the clock advanced
  collections,  \* the collections that exist in the store
  vectors,      \* the tracked points of document_vectors
  metadata,     \* the points of document_metadata
  bulkVectors,  \* untracked points of other documents in document_vectors,
                \* all of ids below the tracked ones
  files,        \* the paths that exist in the file system
  usedUuids,    \* the uuids uuidv4() has returned
  upload,       \* the upload / processDocument requests
  sweep,        \* the cleanupVectorDb run
  del,          \* the deleteDocument request
  query,        \* the generateResponse request
  upserts,      \* the upsert specification: how often each chunk was upserted
  chunkText,    \* the text the chunker specification splits, and its result
  server,       \* the process: its deployment mode and its cleanup timer
  ensuring,     \* the ensureCollection calls in flight
  listing       \* the getUploadedFiles request

vars == <<now, ticks, collections, vectors, metadata, bulkVectors, files,
          usedUuids, upload, sweep, del, query, upserts, chunkText,
          server, ensuring, listing>>

storeVars == <<collections, vectors, metadata, bulkVectors>>

IdleUpload ==
  [pc |-> "idle", via |-> "none", apiKey |-> NoKey, type |-> "none",
   source |-> <<>>, name |-> <<>>, dupOk |-> TRUE,
   prior |-> None, documentId |-> None, originalFilename |-> <<>>,
   textLength |-> -1, nChunks |-> 0, i |-> 0, upserted |-> 0,
   wroteMetadata |-> FALSE,
   ensured |-> FALSE, result |-> "none", code |-> "none",
   cause |-> "none", isDuplicate |-> FALSE]

IdleSweep ==
  [pc |-> "idle", now |-> 0, points |-> <<>>, next |-> 1,
   deletedDocs |-> <<>>, failedDocs |-> <<>>, deletedCount |-> 0,
   result |-> "none"]

IdleDelete ==
  [pc |-> "idle", documentId |-> None, existed |-> FALSE,
   pointsToDelete |-> {}, result |-> "none", code |-> "none", status |-> 0]

IdleQuery ==
  [pc |-> "idle", documentId |-> None, order |-> "asc", bulkCloser |-> FALSE,
   path |-> "none", results |-> <<>>, generated |-> FALSE,
   result |-> "none", code |-> "none", at |-> 0,
   text |-> <<>>, context |-> <<>>, prompt |-> <<>>,
   response |-> [text |-> <<>>], answer |-> <<>>]

InitMain ==
  /\ now = 0
  /\ ticks = 0
  /\ \E bulk \in {0, VECTOR_SCROLL_LIMIT} :
       /\ collections = IF bulk = 0 THEN {}
                                     ELSE {vectorCollection, metadataCollection}
       /\ bulkVectors = bulk
  /\ vectors = {}
  /\ metadata = {}
  /\ usedUuids = {}
  /\ upload = [u \in Uploads |-> IdleUpload]
  /\ sweep = IdleSweep
  /\ del = IdleDelete
  /\ query = IdleQuery

NoChunkText == [text |-> <<>>, chunks |-> <<>>, done |-> FALSE]

\* The process of index.js once initServer has run outside production.
RunningServer ==
  [pc |-> "started", mode |-> "development", timer |-> TRUE, armedAt |-> 0,
   runs |-> 0]

\* No ensureCollection call is split into its steps.
NoEnsuring == <<>>

IdleListing ==
  [pc |-> "idle", apiKey |-> NoKey, scrolled |-> FALSE, files |-> <<>>,
   result |-> "none", code |-> "none"]

\* What the specifications of the request handlers leave alone.
RestInit ==
  /\ server = RunningServer
  /\ ensuring = NoEnsuring
  /\ listing = IdleListing
NoUpserts == [count |-> <<>>, last |-> None]

Init ==
  /\ InitMain
  /\ files = {}
  /\ upserts = NoUpserts
  /\ chunkText = NoChunkText
  /\ RestInit

\* --------------------------------------------------- checkDuplicateFile

\* A match that also demands an uploaded file: url records never match.
IsMatchingPointPdfOnly(point, apiKeyHash, originalFilename) ==
  /\ point.payload.apiKeyHash = apiKeyHash
  /\ point.payload.originalFilename = originalFilename
  /\ point.payload.type = "pdf"

\* point.payload && point.payload.apiKeyHash === apiKeyHash &&
\* point.payload.originalFilename === originalFilename
IsMatchingPoint(point, apiKeyHash, originalFilename) ==
  /\ point.payload.apiKeyHash = apiKeyHash
  /\ point.payload.originalFilename = originalFilename

\* response.points.find(...) and the id it returns; None is null.
checkDuplicateFile(points, originalFilename, apiKey) ==
  LET hits == {i \in 1..Len(points) :
                 IsMatchingPoint(points[i], Sha256Hex(apiKey), originalFilename)}
  IN IF hits = {}
       THEN None
       ELSE points[CHOOSE i \in hits : \A j \in hits : i <= j].payload.originalId

\* The document id of an ingestion for (apiKey, name) that has completed.
CompletedIngestion(apiKey, name) ==
  LET done == {v \in Uploads :
                 /\ upload[v].pc = "done" /\ upload[v].result = "ok"
                 /\ ~upload[v].isDuplicate /\ upload[v].via = "route"
                 /\ upload[v].apiKey = apiKey /\ upload[v].name = name}
  IN IF done = {} THEN None ELSE upload[CHOOSE v \in done : TRUE].documentId

\* ------------------------------------------------------------ upload routes

\* recordDocumentAccess(documentId): "we'll skip this functionality",
\* return true.  The metadata collection after the call.
recordDocumentAccess(points, documentId, t) == points

\* What the handler does once checkDuplicateFile has returned.
\* existingDocId set: the duplicate answer (documentRoutes.js 114-125, 214-220).
AnswerDuplicate(r, existingDocId) ==
  [r EXCEPT !.pc = "done", !.result = "ok", !.documentId = existingDocId,
            !.isDuplicate = TRUE]

\* The request slots are interchangeable: they are taken in order.
SlotFree(u) ==
  /\ upload[u].pc = "idle"
  /\ u = "u2" => upload["u1"].pc # "idle"

\* POST /upload-pdf, to the call of processDocument.
UploadPdf(u, apiKey, originalname) ==
  /\ SlotFree(u)
  /\ \E scrollOk \in BOOLEAN :
       LET seen == IF scrollOk
                     THEN Scroll(metadata, DUPLICATE_SCROLL_LIMIT, 0)
                     ELSE <<>>
           existingDocId == checkDuplicateFile(seen, originalname, apiKey)
           tempFilePath == TempFilePath(now, originalname)
           r == [IdleUpload EXCEPT !.via = "route", !.apiKey = apiKey,
                   !.type = "pdf", !.name = originalname,
                   !.dupOk = scrollOk,
                   !.prior = CompletedIngestion(apiKey, originalname)]
       IN /\ collections' = ensureCollection(collections, metadataCollection)
          /\ metadata' = IF existingDocId # None
                           THEN recordDocumentAccess(metadata, existingDocId, now)
                           ELSE metadata
          /\ IF existingDocId # None
               THEN /\ upload' = [upload EXCEPT ![u] = AnswerDuplicate(r, existingDocId)]
                    /\ files' = files
               ELSE IF Dirname(tempFilePath) # TmpDir
                 \* fs.writeFileSync throws: the directory does not exist.
                 THEN /\ upload' = [upload EXCEPT ![u] =
                           [r EXCEPT !.pc = "done", !.result = "error",
                                     !.code = "ENOENT"]]
                      /\ files' = files
                 ELSE /\ upload' = [upload EXCEPT ![u] =
                           [r EXCEPT !.pc = "process", !.source = tempFilePath]]
                      /\ files' = files \cup {tempFilePath}
  /\ UNCHANGED <<now, ticks, vectors, bulkVectors, usedUuids,
                 sweep, del, query, upserts, chunkText,
                 server, ensuring, listing>>

\* POST /process-url, to the call of processDocument.
ProcessUrl(u, apiKey, url) ==
  /\ SlotFree(u)
  /\ \E scrollOk \in BOOLEAN :
       LET seen == IF scrollOk
                     THEN Scroll(metadata, DUPLICATE_SCROLL_LIMIT, 0)
                     ELSE <<>>
           existingDocId == checkDuplicateFile(seen, url, apiKey)
           r == [IdleUpload EXCEPT !.via = "route", !.apiKey = apiKey,
                   !.type = "url", !.name = url,
                   !.dupOk = scrollOk,
                   !.prior = CompletedIngestion(apiKey, url)]
       IN /\ collections' = ensureCollection(collections, metadataCollection)
          /\ metadata' = IF existingDocId # None
                           THEN recordDocumentAccess(metadata, existingDocId, now)
                           ELSE metadata
          /\ upload' = [upload EXCEPT ![u] =
               IF existingDocId # None
                 THEN AnswerDuplicate(r, existingDocId)
                 ELSE [r EXCEPT !.pc = "process", !.source = url]]
  /\ UNCHANGED <<now, ticks, vectors, bulkVectors, files, usedUuids,
                 sweep, del, query, upserts, chunkText,
                 server, ensuring, listing>>

\* processDocument(source, type, apiKey) called by any other caller.
CallProcessDocument(u, source, type, apiKey) ==
  /\ SlotFree(u)
  /\ upload' = [upload EXCEPT ![u] =
       [IdleUpload EXCEPT !.pc = "process", !.via = "direct",
          !.apiKey = apiKey, !.type = type, !.source = source]]
  /\ UNCHANGED <<now, ticks, storeVars, files, usedUuids, sweep, del, query,
                 upserts, chunkText,
                 server, ensuring, listing>>

\* --------------------------------------------------------- processDocument

\* The checks with the credential checked last.
ValidationErrorKeyLast(apiKey, type, source, existing) ==
  IF type = "pdf" /\ source \notin existing THEN "FILE_NOT_FOUND"
  ELSE IF type = "url" /\ ~MatchesHttpUrl(source) THEN "INVALID_URL"
  ELSE IF type \notin {"pdf", "url"} THEN "UNSUPPORTED_TYPE"
  ELSE IF apiKey = NoKey THEN "API_KEY_MISSING"
  ELSE "none"

\* The checks of processDocument before it loads anything (lines 71-75,
\* 91-96, 114-119, 140-144): the code of the error thrown, or "none".
ValidationError(apiKey, type, source, existing) ==
  IF apiKey = NoKey THEN "API_KEY_MISSING"
  ELSE IF type = "pdf"
    THEN (IF source \notin existing THEN "FILE_NOT_FOUND" ELSE "none")
  ELSE IF type = "url"
    THEN (IF ~MatchesHttpUrl(source) THEN "INVALID_URL" ELSE "none")
  ELSE "UNSUPPORTED_TYPE"

\* if (!docs || docs.length === 0): docs is the array the loader built.
NoContent(docs) == Len(docs) = 0

\* The originalFilename processDocument stores.
OriginalFilenameOf(type, source) ==
  IF type = "pdf" THEN StripTimestampPrefix(LastPathPart(source)) ELSE source

\* Catch blocks that leave the uploaded file where it is.
RemoveTempFileNever(existing, type, source) == existing

\* The catch blocks of processDocument and of the upload-pdf handler:
\* fs.existsSync(source) && fs.unlinkSync(source) for a pdf.
RemoveTempFile(existing, type, source) ==
  IF type = "pdf" /\ source # <<>> THEN existing \ {source} ELSE existing

\* The request ends with an error of this code.
Failed(r, code) ==
  [r EXCEPT !.pc = "done", !.result = "error", !.code = code,
            !.dupOk = TRUE, !.prior = None]

\* uuidv4(): a uuid never returned before.  Unused uuids differ only in
\* whether their ids collide with those of a used one, so the least unused
\* uuid and the colliding ones stand for all.
uuidv4(used) ==
  LET unused == Uuids \ used
  IN {d \in unused :
        \/ \A e \in unused : d[2] <= e[2]
        \/ \E e \in used : deriveMetadataId(e) = deriveMetadataId(d)}

\* Validation, loading, chunking and uuidv4() (lines 70-177).
PD_Load(u) ==
  LET r == upload[u]
      err == ValidationError(r.apiKey, r.type, r.source, files)
  IN /\ r.pc = "process"
     /\ IF err # "none"
          THEN /\ upload' = [upload EXCEPT ![u] = Failed(r, err)]
               /\ files' = RemoveTempFile(files, r.type, r.source)
               /\ usedUuids' = usedUuids
          ELSE \E loaded \in BOOLEAN, length \in TextLengths :
                 LET docs == <<[pageContent |-> length]>>
                 IN IF ~loaded
                      THEN /\ length = 0
                           /\ upload' = [upload EXCEPT ![u] =
                                Failed(r, "DOCUMENT_PROCESSING_FAILED")]
                           /\ files' = RemoveTempFile(files, r.type, r.source)
                           /\ usedUuids' = usedUuids
                      ELSE IF NoContent(docs)
                        THEN /\ upload' = [upload EXCEPT ![u] =
                                  [Failed(r, "EMPTY_CONTENT") EXCEPT
                                     !.textLength = docs[1].pageContent]]
                             /\ files' = RemoveTempFile(files, r.type, r.source)
                             /\ usedUuids' = usedUuids
                        ELSE \E documentId \in uuidv4(usedUuids) :
                               /\ upload' = [upload EXCEPT ![u] =
                                    [r EXCEPT !.pc = "ensure",
                                       !.dupOk = TRUE, !.prior = None,
                                       !.originalFilename =
                                         OriginalFilenameOf(r.type, r.source),
                                       !.textLength = docs[1].pageContent,
                                       !.nChunks =
                                         Len(SplitRanges(docs[1].pageContent)),
                                       !.documentId = documentId]]
                               /\ usedUuids' = usedUuids \cup {documentId}
                               /\ files' = files
     /\ UNCHANGED <<now, ticks, storeVars, sweep, del, query, upserts, chunkText,
                 server, ensuring, listing>>

\* await ensureCollection(vectorCollection); await ensureCollection(metadataCollection)
PD_Ensure(u) ==
  /\ upload[u].pc = "ensure"
  /\ collections' = ensureCollection(ensureCollection(collections, vectorCollection),
                                     metadataCollection)
  /\ upload' = [upload EXCEPT ![u] = [@ EXCEPT !.pc = "embed", !.ensured = TRUE]]
  /\ UNCHANGED <<now, ticks, vectors, metadata, bulkVectors, files, usedUuids,
                 sweep, del, query, upserts, chunkText,
                 server, ensuring, listing>>

\* A point whose id also depends on the number of chunks of the text.
ChunkPointByCount(documentId, k, textLength) ==
  [id |-> derivePointId(PointIdStr(documentId, k))
            + 16 * Len(SplitRanges(textLength)),
   payload |-> [text |-> SplitRanges(textLength)[k + 1],
                documentId |-> documentId,
                chunk |-> k,
                originalId |-> PointIdStr(documentId, k)]]

\* batch.map((doc, idx) => ...): the point of chunk k (lines 205-222).
ChunkPoint(documentId, k, textLength) ==
  [id |-> derivePointId(PointIdStr(documentId, k)),
   payload |-> [text |-> SplitRanges(textLength)[k + 1],
                documentId |-> documentId,
                chunk |-> k,
                originalId |-> PointIdStr(documentId, k)]]

\* splitDocs.slice(i) as points: every chunk that is left, in one batch.
BatchPointsAll(documentId, i, nChunks, textLength) ==
  [j \in 1..(nChunks - i) |-> ChunkPoint(documentId, i + j - 1, textLength)]

\* splitDocs.slice(i, i + batchSize) as points.
BatchPoints(documentId, i, nChunks, textLength) ==
  [j \in 1..(Min(i + batchSize, nChunks) - i) |->
     ChunkPoint(documentId, i + j - 1, textLength)]

\* A failed batch that is logged and skipped: the loop goes on.
AfterBatchErrorContinue(r) == [r EXCEPT !.i = r.i + batchSize]

\* Where a failed batch leaves the request: throw batchError, wrapped as
\* VECTOR_CREATION_FAILED by the catch of line 269.
AfterBatchError(r) == Failed(r, "VECTOR_CREATION_FAILED")

\* One round of the batch loop (lines 193-234): embedDocuments, then upsert.
PD_Batch(u) ==
  LET r == upload[u]
      batch == BatchPoints(r.documentId, r.i, r.nChunks, r.textLength)
  IN /\ r.pc = "embed"
     /\ r.i < r.nChunks
     /\ \/ /\ vectors' = Upsert(vectors, batch)
           /\ upload' = [upload EXCEPT ![u] =
                [r EXCEPT !.i = r.i + batchSize,
                          !.upserted = r.upserted + Len(batch)]]
           /\ files' = files
        \/ \E failing \in {"embedDocuments", "upsert"} :
             /\ vectors' = vectors
             \* wrappedError.originalError = error (line 273)
             /\ upload' = [upload EXCEPT ![u] =
                  [AfterBatchError(r) EXCEPT !.cause = failing]]
             /\ files' = IF upload'[u].pc = "done"
                           THEN RemoveTempFile(files, r.type, r.source)
                           ELSE files
     /\ UNCHANGED <<now, ticks, collections, metadata, bulkVectors, usedUuids,
                    sweep, del, query, upserts, chunkText,
                    server, ensuring, listing>>

\* The metadata point of a document (lines 237-253).
MetadataPoint(documentId, apiKey, originalFilename, type, t) ==
  [id |-> deriveMetadataId(documentId),
   payload |-> [originalId |-> documentId,
                uploadedAt |-> ToISOString(t),
                apiKeyHash |-> Sha256Hex(apiKey),
                originalFilename |-> originalFilename,
                type |-> type,
                lastAccessed |-> ToISOString(t)]]

\* After the loop: the metadata upsert, the removal of the uploaded file and
\* the return of documentId (lines 236-268), or the catch of line 269.
PD_Metadata(u) ==
  LET r == upload[u]
  IN /\ r.pc = "embed"
     /\ r.i >= r.nChunks
     /\ \/ /\ metadata' = Upsert(metadata,
                <<MetadataPoint(r.documentId, r.apiKey, r.originalFilename,
                                r.type, now)>>)
           /\ upload' = [upload EXCEPT ![u] =
                [r EXCEPT !.pc = "done", !.result = "ok", !.wroteMetadata = TRUE]]
        \/ /\ metadata' = metadata
           /\ upload' = [upload EXCEPT ![u] =
                [Failed(r, "VECTOR_CREATION_FAILED") EXCEPT !.cause = "upsert"]]
     /\ files' = RemoveTempFile(files, r.type, r.source)
     /\ UNCHANGED <<now, ticks, collections, vectors, bulkVectors, usedUuids,
                    sweep, del, query, upserts, chunkText,
                    server, ensuring, listing>>

\* --------------------------------------------------------- cleanupVectorDb

\* const documentId = point.id, as the value of the delete filter.
SweepDocumentId(point) == Num(point.id)

\* The comparison that also evicts a document exactly one day old.
ExpiredAtOneDay(t, point) == t - DateParse(point.payload.lastAccessed) >= ONE_DAY_MS

\* now - lastAccessed > ONE_DAY_MS
Expired(t, point) == t - DateParse(point.payload.lastAccessed) > ONE_DAY_MS

\* Lines 13-28: the scroll of the metadata collection.
SweepBegin ==
  /\ sweep.pc = "idle"
  /\ collections' = ensureCollection(collections, metadataCollection)
  /\ \/ LET points == Scroll(metadata, CLEANUP_SCROLL_LIMIT, 0)
        IN sweep' = [IdleSweep EXCEPT
                       !.pc = IF Len(points) = 0 THEN "done" ELSE "loop",
                       !.result = IF Len(points) = 0 THEN "ok" ELSE "none",
                       !.now = now, !.points = points]
     \/ sweep' = [IdleSweep EXCEPT !.pc = "done", !.result = "error", !.now = now]
  /\ UNCHANGED <<now, ticks, vectors, metadata, bulkVectors, files, usedUuids,
                 upload, del, query, upserts, chunkText, ensuring, listing>>

\* cleanupVectorDb called by the timer of a running process or by the admin
\* route.
SweepStart ==
  /\ SweepBegin
  /\ UNCHANGED server

\* deletedDocs.push(documentId) (line 51).
OnPointDeleted(s, point) == [s EXCEPT !.deletedDocs = Append(@, point.id)]

\* A catch that counts the document as deleted.
OnPointErrorAsDeleted(s, point) == [s EXCEPT !.deletedDocs = Append(@, point.id)]

\* catch (err) { failedDocs.push(point.id) } (lines 53-55).
OnPointError(s, point) == [s EXCEPT !.failedDocs = Append(@, point.id)]

\* The object returned after the loop (lines 58-64).
SweepResult(s) ==
  [s EXCEPT !.pc = "done", !.result = "ok",
            !.deletedCount = Len(s.deletedDocs)]

\* One round of the loop of lines 30-56.
SweepPoint ==
  LET point == sweep.points[sweep.next]
      last == sweep.next = Len(sweep.points)
      advanced == [sweep EXCEPT !.next = @ + 1]
      Continue(s) == IF last THEN SweepResult(s) ELSE s
  IN /\ sweep.pc = "loop"
     /\ IF Expired(sweep.now, point)
          THEN \/ /\ vectors' = DeleteByDocumentId(vectors, SweepDocumentId(point))
                  /\ metadata' = DeletePoints(metadata, {point.id})
                  /\ sweep' = Continue(OnPointDeleted(advanced, point))
               \/ \* the delete of the vectors throws
                  /\ UNCHANGED <<vectors, metadata>>
                  /\ sweep' = Continue(OnPointError(advanced, point))
               \/ \* the delete of the metadata throws
                  /\ vectors' = DeleteByDocumentId(vectors, SweepDocumentId(point))
                  /\ metadata' = metadata
                  /\ sweep' = Continue(OnPointError(advanced, point))
          ELSE /\ UNCHANGED <<vectors, metadata>>
               /\ sweep' = Continue(advanced)
     /\ UNCHANGED <<now, ticks, collections, bulkVectors, files, usedUuids,
                    upload, del, query, upserts, chunkText,
                    server, ensuring, listing>>

\* The timer or the admin route may start the next run.
SweepReturn ==
  /\ sweep.pc = "done"
  /\ sweep' = IdleSweep
  /\ UNCHANGED <<now, ticks, storeVars, files, usedUuids, upload, del, query,
                 upserts, chunkText,
                 server, ensuring, listing>>

\* ---------------------------------------------------------- deleteDocument

\* allPoints.points.filter(point => point.payload.documentId === documentId)
\*   .map(point => point.id)
PointsOfDocument(points, documentId) ==
  {points[i].id : i \in {j \in 1..Len(points) :
                           points[j].payload.documentId = documentId}}

\* allMetadata.points.filter(point => point.payload.originalId === documentId)
\*   .map(point => point.id)
MetadataOfDocument(points, documentId) ==
  {points[i].id : i \in {j \in 1..Len(points) :
                           points[j].payload.originalId = documentId}}

\* The document ids a caller can send: those a request has returned, and a
\* string that is the id of no document.
UnknownId == Uuid(0)
ReturnedIds ==
  {upload[u].documentId :
     u \in {v \in Uploads : upload[v].pc = "done" /\ upload[v].result = "ok"}}

\* The status the delete route answers with (documentRoutes.js 252-272).
DeleteStatus(result, code) ==
  IF result = "ok" THEN 200
  ELSE IF code = "DOCUMENT_NOT_FOUND" THEN 404
  ELSE 500

\* deleteDocument returns (line 367) and the route answers.
DeleteSucceeded(d) ==
  [d EXCEPT !.pc = "done", !.result = "ok",
            !.status = DeleteStatus("ok", "none")]

\* deleteDocument throws (lines 368-374) and the route answers.
DeleteFailed(d) ==
  [d EXCEPT !.pc = "done", !.result = "error",
            !.code = "DOCUMENT_DELETION_FAILED",
            !.status = DeleteStatus("error", "DOCUMENT_DELETION_FAILED")]

\* Whether the store holds anything of the document.
DocumentStored(documentId) ==
  \/ \E p \in vectors : p.payload.documentId = documentId
  \/ \E m \in metadata : m.payload.originalId = documentId

\* Lines 298-321: the collections and the scroll of the vector collection.
DeleteStart(documentId) ==
  /\ del.pc = "idle"
  /\ documentId \in ReturnedIds \cup {UnknownId}
  /\ collections' = ensureCollection(ensureCollection(collections, vectorCollection),
                                     metadataCollection)
  /\ \/ del' = [IdleDelete EXCEPT !.pc = "vectors", !.documentId = documentId,
                  !.existed = DocumentStored(documentId),
                  !.pointsToDelete =
                    PointsOfDocument(Scroll(vectors, VECTOR_SCROLL_LIMIT, bulkVectors),
                                     documentId)]
     \/ del' = DeleteFailed([IdleDelete EXCEPT !.documentId = documentId,
                                !.existed = DocumentStored(documentId)])
  /\ UNCHANGED <<now, ticks, vectors, metadata, bulkVectors, files, usedUuids,
                 upload, sweep, query, upserts, chunkText,
                 server, ensuring, listing>>

\* Lines 323-332: the delete of the points found.
DeleteVectors ==
  /\ del.pc = "vectors"
  /\ IF del.pointsToDelete # {}
       THEN \/ /\ vectors' = DeletePoints(vectors, del.pointsToDelete)
               /\ del' = [del EXCEPT !.pc = "metadata"]
            \/ /\ vectors' = vectors
               /\ del' = DeleteFailed(del)
       ELSE /\ vectors' = vectors
            /\ del' = [del EXCEPT !.pc = "metadata"]
  /\ UNCHANGED <<now, ticks, collections, metadata, bulkVectors, files,
                 usedUuids, upload, sweep, query, upserts, chunkText,
                 server, ensuring, listing>>

\* Lines 334-367: the delete of the metadata by id, and its fallback.
DeleteMetadata ==
  /\ del.pc = "metadata"
  /\ \/ /\ metadata' = DeletePoints(metadata, {deriveMetadataId(del.documentId)})
        /\ del' = DeleteSucceeded(del)
     \/ \* the delete by id throws; the fallback scrolls and deletes
        /\ metadata' = DeletePoints(metadata,
             MetadataOfDocument(Scroll(metadata, METADATA_FALLBACK_SCROLL_LIMIT, 0),
                                del.documentId))
        /\ del' = DeleteSucceeded(del)
     \/ \* the fallback throws too
        /\ metadata' = metadata
        /\ del' = DeleteFailed(del)
  /\ UNCHANGED <<now, ticks, collections, vectors, bulkVectors, files,
                 usedUuids, upload, sweep, query, upserts, chunkText,
                 server, ensuring, listing>>

\* -------------------------------------------------------- generateResponse

RECURSIVE Reverse(_)
Reverse(s) == IF s = <<>> THEN <<>> ELSE Append(Reverse(Tail(s)), Head(s))

\* The tracked points by decreasing similarity to the query vector: a query
\* ranks them by ascending or by descending id.
BySimilarity(coll, order) ==
  IF order = "asc" THEN SortById(coll) ELSE Reverse(SortById(coll))

Take(s, n) == SubSeq(s, 1, Min(n, Len(s)))

\* A filter that lets every result through.
OfDocumentAny(points, documentId) == points

\* result.payload && result.payload.documentId === documentId
OfDocument(points, documentId) ==
  LET Test(p) == p.payload.documentId = documentId
  IN SelectSeq(points, Test)

\* qdrantClient.search with the documentId filter and limit 3 (lines 36-44).
FilteredSearch(coll, documentId, order) ==
  Take(OfDocument(BySimilarity(coll, order), documentId), SEARCH_LIMIT)

\* The fallback (lines 47-55): search without filter, limit 20, filter, slice.
\* `closer` untracked points are nearer to the query than every tracked one.
FallbackSearch(coll, documentId, order, closer) ==
  LET room == IF FALLBACK_SEARCH_LIMIT > closer
                THEN FALLBACK_SEARCH_LIMIT - closer ELSE 0
      allResults == Take(BySimilarity(coll, order), room)
  IN Take(OfDocument(allResults, documentId), SEARCH_LIMIT)

\* The question of a query.
QuestionA == <<"w", "h", "y", "?">>

\* Lines 9-27: the key check, recordDocumentAccess, embedQuery.
QueryStart(text, documentId, apiKey, order, bulkCloser) ==
  /\ query.pc = "idle"
  /\ IF apiKey = NoKey
       THEN /\ query' = [IdleQuery EXCEPT !.pc = "done", !.documentId = documentId,
                           !.text = text,
                           !.result = "error", !.code = "API_KEY_MISSING"]
            /\ metadata' = metadata
       ELSE /\ metadata' = recordDocumentAccess(metadata, documentId, now)
            /\ \/ query' = [IdleQuery EXCEPT !.pc = "search",
                              !.documentId = documentId, !.order = order,
                              !.text = text,
                              !.bulkCloser = bulkCloser]
               \/ /\ order = "asc" /\ ~bulkCloser
                  /\ query' = [IdleQuery EXCEPT !.pc = "done",
                                 !.documentId = documentId, !.result = "error",
                                 !.text = text,
                                 !.code = "RESPONSE_GENERATION_FAILED"]
  /\ UNCHANGED <<now, ticks, collections, vectors, bulkVectors, files,
                 usedUuids, upload, sweep, del, upserts, chunkText,
                 server, ensuring, listing>>

\* Lines 29-60: ensureCollection, the search or its fallback, the empty check.
QuerySearch ==
  /\ query.pc = "search"
  /\ collections' = ensureCollection(collections, vectorCollection)
  /\ \E path \in {"filtered", "fallback", "error"} :
       LET searchResults ==
             IF path = "filtered"
               THEN FilteredSearch(vectors, query.documentId, query.order)
               ELSE FallbackSearch(vectors, query.documentId, query.order,
                                   IF query.bulkCloser THEN bulkVectors ELSE 0)
       IN query' =
            IF path = "error" \/ Len(searchResults) = 0
              THEN [query EXCEPT !.pc = "done", !.result = "error",
                                 !.path = path,
                                 !.code = "RESPONSE_GENERATION_FAILED"]
              ELSE [query EXCEPT !.pc = "generate", !.path = path,
                                 !.results = searchResults]
  /\ UNCHANGED <<now, ticks, vectors, metadata, bulkVectors, files, usedUuids,
                 upload, sweep, del, upserts, chunkText,
                 server, ensuring, listing>>

\* A string is a sequence of pieces: single characters, and the fixed parts
\* of a template literal as one piece each.

\* The separator '\n\n' of line 64.
BlankLine == <<"\n", "\n">>

\* Array.prototype.join: the elements with the separator between them.
RECURSIVE Join(_, _)
Join(texts, separator) ==
  IF Len(texts) = 0 THEN <<>>
  ELSE IF Len(texts) = 1 THEN texts[1]
  ELSE texts[1] \o separator \o Join(Tail(texts), separator)

\* searchResults.map(result => result.payload.text) (line 63).  Where a
\* chunk's text stands as its <<start, end>> in the document, the context is
\* the sequence of these bounds and the separators.
ContextTexts(searchResults) ==
  [n \in 1..Len(searchResults) |-> searchResults[n].payload.text]

\* The context joined by single line breaks.
ContextOfLines(searchResults) == Join(ContextTexts(searchResults), <<"\n">>)

\* contextTexts.join('\n\n') (line 64)
ContextOf(searchResults) == Join(ContextTexts(searchResults), BlankLine)

\* The fixed parts of the template literal of lines 78-86.
PromptHead ==
  <<"\n    Based on the following information, please answer the question.\n    \n    Context information:\n    ">>
PromptMiddle == <<"\n    \n    Question: ">>
PromptTail == <<"\n    \n    Answer:">>

\* The template literal of lines 78-86.
PromptOf(context, text) ==
  PromptHead \o context \o PromptMiddle \o text \o PromptTail

\* What model.generateContent(prompt) resolves to: result.response.
GenerationResult(generatedText) == [response |-> [text |-> generatedText]]

\* What generateContent may produce.
AnswerA == <<"o", "k">>

\* Lines 62-91: the context, the prompt, the generation call, response.text().
QueryGenerate(generatedText) ==
  /\ query.pc = "generate"
  /\ LET context == ContextOf(query.results)
         prompt == PromptOf(context, query.text)
         result == GenerationResult(generatedText)
         response == result.response
     IN \/ query' = [query EXCEPT !.pc = "done", !.result = "ok", !.at = now,
                                  !.generated = TRUE, !.context = context,
                                  !.prompt = prompt, !.response = response,
                                  !.answer = response.text]
        \/ /\ generatedText = AnswerA
           /\ query' = [query EXCEPT !.pc = "done", !.result = "error",
                                     !.at = now,
                                     !.generated = TRUE, !.context = context,
                                     !.prompt = prompt,
                                     !.code = "RESPONSE_GENERATION_FAILED"]
  /\ UNCHANGED <<now, ticks, storeVars, files, usedUuids, upload, sweep, del,
                 upserts, chunkText,
                 server, ensuring, listing>>

\* ------------------------------------------------------------------- clock

Tick ==
  /\ ticks < MaxTicks
  /\ ticks' = ticks + 1
  /\ \E step \in {ONE_DAY_MS, ONE_DAY_MS + 1} : now' = now + step
  /\ UNCHANGED <<storeVars, files, usedUuids, upload, sweep, del, query,
                 upserts, chunkText,
                 server, ensuring, listing>>

\* -------------------------------------------------------- getUploadedFiles

\* A filter that lets every record through.
OwnedByAnyone(point, apiKeyHash) == TRUE

\* point.payload && point.payload.apiKeyHash === apiKeyHash (line 400)
OwnedBy(point, apiKeyHash) == point.payload.apiKeyHash = apiKeyHash

\* The object a record is listed as (lines 401-406); every record has an
\* originalId and an originalFilename.
ListedFile(point) ==
  [documentId |-> point.payload.originalId,
   originalFilename |-> point.payload.originalFilename,
   uploadedAt |-> point.payload.uploadedAt,
   lastAccessed |-> point.payload.lastAccessed]

\* allResponse.points.filter(...).map(...)
FilesOf(points, apiKeyHash) ==
  LET Mine(p) == OwnedBy(p, apiKeyHash)
      mine == SelectSeq(points, Mine)
  IN [n \in 1..Len(mine) |-> ListedFile(mine[n])]

\* getUploadedFiles(apiKey), lines 378-420.
ListFiles(apiKey) ==
  /\ listing.pc = "idle"
  /\ IF apiKey = NoKey
       THEN /\ listing' = [IdleListing EXCEPT !.pc = "done", !.result = "error",
                             !.code = "API_KEY_MISSING"]
            /\ collections' = collections
       ELSE /\ collections' = ensureCollection(collections, metadataCollection)
            /\ \/ listing' = [IdleListing EXCEPT !.pc = "done", !.apiKey = apiKey,
                     !.scrolled = TRUE, !.result = "ok",
                     !.files = FilesOf(Scroll(metadata, LIST_SCROLL_LIMIT, 0),
                                       Sha256Hex(apiKey))]
               \/ \* the scroll throws: return {files: []}
                  listing' = [IdleListing EXCEPT !.pc = "done", !.apiKey = apiKey,
                     !.result = "ok"]
  /\ UNCHANGED <<now, ticks, vectors, metadata, bulkVectors, files, usedUuids,
                 upload, sweep, del, query, upserts, chunkText,
                 server, ensuring>>

\* ------------------------------------------------------------- initServer

\* The values of NODE_ENV that initServer tells apart.
DeployModes == {"development", "production"}

BootingServer(mode) ==
  [pc |-> "boot", mode |-> mode, timer |-> FALSE, armedAt |-> 0, runs |-> 0]

\* process.env.NODE_ENV !== 'production' (lines 139 and 159).
SchedulesCleanup(mode) == mode # "production"

\* ensureDirectoriesExist and initQdrant (lines 135-136).
InitServer ==
  /\ server.pc = "boot"
  /\ collections' = ensureCollection(ensureCollection(collections, vectorCollection),
                                     metadataCollection)
  /\ server' = [server EXCEPT !.pc = "init"]
  /\ UNCHANGED <<now, ticks, vectors, metadata, bulkVectors, files, usedUuids,
                 upload, sweep, del, query, upserts, chunkText,
                 ensuring, listing>>

\* Lines 139-167: setInterval(cleanupVectorDb, ONE_DAY_MS) and the initial
\* cleanupVectorDb(), or neither.
ScheduleCleanup ==
  /\ server.pc = "init"
  /\ IF SchedulesCleanup(server.mode)
       THEN /\ SweepBegin
            /\ server' = [server EXCEPT !.pc = "started", !.timer = TRUE,
                                        !.armedAt = now, !.runs = @ + 1]
       ELSE /\ server' = [server EXCEPT !.pc = "started"]
            /\ UNCHANGED <<now, ticks, storeVars, files, usedUuids, upload,
                           sweep, del, query, upserts, chunkText,
                           ensuring, listing>>

\* The interval timer calls cleanupVectorDb once ONE_DAY_MS have passed.
TimerFires ==
  /\ server.timer
  /\ now - server.armedAt >= ONE_DAY_MS
  /\ SweepBegin
  /\ server' = [server EXCEPT !.armedAt = now, !.runs = @ + 1]

\* -------------------------------------------- ensureCollection, step by step

Callers == {"e1", "e2"}

IdleEnsure ==
  [pc |-> "idle", name |-> "", exists |-> FALSE, wrote |-> FALSE,
   size |-> 0, distance |-> "", index |-> "none", result |-> "none"]

\* process.env.NODE_ENV !== 'production' && !process.env.VERCEL: the catch of
\* line 103 throws the error again.
RethrowsEnsureError(mode) == mode # "production"

\* Lines 68-69: getCollections and the test for the name.
EnsureCheck(c, name) ==
  /\ ensuring[c].pc = "idle"
  /\ LET exists == name \in collections
     IN ensuring' = [ensuring EXCEPT ![c] =
          [IdleEnsure EXCEPT !.name = name, !.exists = exists,
             !.pc = IF exists THEN "done" ELSE "create",
             !.result = IF exists THEN "ok" ELSE "none"]]
  /\ UNCHANGED <<now, ticks, storeVars, files, usedUuids, upload, sweep, del,
                 query, upserts, chunkText, server, listing>>

\* Lines 71-78 and the catch of lines 103-109: createCollection, which the
\* store rejects when a collection of the name exists.
EnsureCreate(c) ==
  LET e == ensuring[c]
  IN /\ e.pc = "create"
     /\ IF e.name \in collections
          THEN /\ collections' = collections
               /\ ensuring' = [ensuring EXCEPT ![c] =
                    [e EXCEPT !.pc = "done",
                              !.result = IF RethrowsEnsureError(server.mode)
                                           THEN "error" ELSE "ok"]]
          ELSE /\ collections' = ensureCollection(collections, e.name)
               /\ ensuring' = [ensuring EXCEPT ![c] =
                    [e EXCEPT !.pc = "index", !.wrote = TRUE,
                              !.size = 768, !.distance = "Cosine"]]
     /\ UNCHANGED <<now, ticks, vectors, metadata, bulkVectors, files,
                    usedUuids, upload, sweep, del, query, upserts, chunkText,
                    server, listing>>

\* An index error that leaves the inner try and ends the call with it.
AfterIndexErrorThrown(e) ==
  [e EXCEPT !.pc = "done", !.result = "error", !.index = "failed"]

\* catch (indexError) { console.error(...) } (lines 88-90 and 98-100): the
\* call goes on to its end.
AfterIndexError(e) ==
  [e EXCEPT !.pc = "done", !.result = "ok", !.index = "failed"]

\* Lines 80-101: createPayloadIndex on the collection just created.
EnsureIndex(c) ==
  /\ ensuring[c].pc = "index"
  /\ \/ ensuring' = [ensuring EXCEPT ![c] =
          [@ EXCEPT !.pc = "done", !.result = "ok", !.index = "created"]]
     \/ ensuring' = [ensuring EXCEPT ![c] = AfterIndexError(ensuring[c])]
  /\ UNCHANGED <<now, ticks, storeVars, files, usedUuids, upload, sweep, del,
                 query, upserts, chunkText, server, listing>>

\* ----------------------------------------------------------- specification

\* The credentials a request slot sends: the slots and the keys are
\* interchangeable, so the first slot sends the first key.
KeysOf(u) == IF u = "u1" THEN {"k1"} ELSE ApiKeys

\* The upload routes, processDocument and deleteDocument.
Next ==
  \/ \E u \in Uploads, name \in PdfNames : \E apiKey \in KeysOf(u) :
       UploadPdf(u, apiKey, name)
  \/ \E u \in Uploads, url \in Urls : \E apiKey \in KeysOf(u) :
       ProcessUrl(u, apiKey, url)
  \/ \E u \in Uploads : PD_Load(u)
  \/ \E u \in Uploads : PD_Ensure(u)
  \/ \E u \in Uploads : PD_Batch(u)
  \/ \E u \in Uploads : PD_Metadata(u)
  \/ \E documentId \in Uuids \cup {UnknownId} : DeleteStart(documentId)
  \/ DeleteVectors
  \/ DeleteMetadata

Spec == Init /\ [][Next]_vars

\* The url route, processDocument, the sweep, generateResponse and the clock.
NextSweep ==
  \/ \E u \in Uploads, url \in Urls : \E apiKey \in KeysOf(u) :
       ProcessUrl(u, apiKey, url)
  \/ \E u \in Uploads : PD_Load(u)
  \/ \E u \in Uploads : PD_Ensure(u)
  \/ \E u \in Uploads : PD_Batch(u)
  \/ \E u \in Uploads : PD_Metadata(u)
  \/ SweepStart
  \/ SweepPoint
  \/ SweepReturn
  \/ \E documentId \in usedUuids, apiKey \in {NoKey, "k1"} :
       QueryStart(QuestionA, documentId, apiKey, "asc", FALSE)
  \/ QuerySearch
  \/ QueryGenerate(AnswerA)
  \/ Tick

InitSweep == Init /\ bulkVectors = 0

SpecSweep == InitSweep /\ [][NextSweep]_vars

\* The url route, processDocument, the sweep and the clock.
NextCleanup ==
  \/ \E u \in Uploads, url \in Urls : \E apiKey \in KeysOf(u) :
       ProcessUrl(u, apiKey, url)
  \/ \E u \in Uploads : PD_Load(u)
  \/ \E u \in Uploads : PD_Ensure(u)
  \/ \E u \in Uploads : PD_Batch(u)
  \/ \E u \in Uploads : PD_Metadata(u)
  \/ SweepStart
  \/ SweepPoint
  \/ SweepReturn
  \/ Tick

SpecCleanup == InitSweep /\ [][NextCleanup]_vars

\* The process from its start in either deployment mode: initServer, the
\* timer, the sweep it runs, the url route and the clock.
NextServer ==
  \/ InitServer
  \/ ScheduleCleanup
  \/ TimerFires
  \/ SweepPoint
  \/ SweepReturn
  \/ \E u \in Uploads, url \in Urls : ProcessUrl(u, "k1", url)
  \/ \E u \in Uploads : PD_Load(u)
  \/ \E u \in Uploads : PD_Ensure(u)
  \/ \E u \in Uploads : PD_Batch(u)
  \/ \E u \in Uploads : PD_Metadata(u)
  \/ Tick

InitServerSpec ==
  /\ InitMain
  /\ bulkVectors = 0
  /\ files = {}
  /\ upserts = NoUpserts
  /\ chunkText = NoChunkText
  /\ ensuring = NoEnsuring
  /\ listing = IdleListing
  /\ \E mode \in DeployModes : server = BootingServer(mode)

SpecServer == InitServerSpec /\ [][NextServer]_vars

\* Two callers of ensureCollection whose steps interleave, in either
\* deployment mode, on a store that has one of the collections or none.
NextEnsure ==
  \/ \E c \in Callers, name \in {vectorCollection, metadataCollection} :
       EnsureCheck(c, name)
  \/ \E c \in Callers : EnsureCreate(c)
  \/ \E c \in Callers : EnsureIndex(c)

InitEnsure ==
  /\ now = 0 /\ ticks = 0 /\ bulkVectors = 0
  /\ collections \in {{}, {metadataCollection}}
  /\ vectors = {} /\ metadata = {} /\ usedUuids = {} /\ files = {}
  /\ upload = [u \in Uploads |-> IdleUpload]
  /\ sweep = IdleSweep /\ del = IdleDelete /\ query = IdleQuery
  /\ upserts = NoUpserts /\ chunkText = NoChunkText
  /\ listing = IdleListing
  /\ \E mode \in DeployModes : server = [RunningServer EXCEPT !.mode = mode]
  /\ ensuring = [c \in Callers |-> IdleEnsure]

SpecEnsure == InitEnsure /\ [][NextEnsure]_vars

\* The calls of ensureCollection step by step, then one request of the url
\* route with its ingestion and a query on the collections they left.
NextBootstrap ==
  \/ \E c \in Callers, name \in {vectorCollection, metadataCollection} :
       EnsureCheck(c, name)
  \/ \E c \in Callers : EnsureCreate(c)
  \/ \E c \in Callers : EnsureIndex(c)
  \/ \E url \in Urls : ProcessUrl("u1", "k1", url)
  \/ PD_Load("u1")
  \/ PD_Ensure("u1")
  \/ PD_Batch("u1")
  \/ PD_Metadata("u1")
  \/ \E documentId \in usedUuids :
       QueryStart(QuestionA, documentId, "k1", "asc", FALSE)
  \/ QuerySearch
  \/ QueryGenerate(AnswerA)

SpecBootstrap == InitEnsure /\ [][NextBootstrap]_vars

\* The url route under two credentials, processDocument, deleteDocument and
\* getUploadedFiles.
NextList ==
  \/ \E u \in Uploads, url \in Urls : \E apiKey \in KeysOf(u) :
       ProcessUrl(u, apiKey, url)
  \/ \E u \in Uploads : PD_Load(u)
  \/ \E u \in Uploads : PD_Ensure(u)
  \/ \E u \in Uploads : PD_Batch(u)
  \/ \E u \in Uploads : PD_Metadata(u)
  \/ \E documentId \in Uuids \cup {UnknownId} : DeleteStart(documentId)
  \/ DeleteVectors
  \/ DeleteMetadata
  \/ \E apiKey \in ApiKeys \cup {NoKey} : ListFiles(apiKey)

SpecList == InitSweep /\ [][NextList]_vars

\* The url route, processDocument, deleteDocument and generateResponse, with
\* either ranking of the points and with or without other documents' points
\* nearer to the query.
NextQuery ==
  \/ \E u \in Uploads, url \in Urls : ProcessUrl(u, "k1", url)
  \/ \E u \in Uploads : PD_Load(u)
  \/ \E u \in Uploads : PD_Ensure(u)
  \/ \E u \in Uploads : PD_Batch(u)
  \/ \E u \in Uploads : PD_Metadata(u)
  \/ \E documentId \in Uuids \cup {UnknownId} : DeleteStart(documentId)
  \/ DeleteVectors
  \/ DeleteMetadata
  \/ \E documentId \in usedUuids \cup {UnknownId}, order \in {"asc", "desc"},
        bulkCloser \in BOOLEAN :
       QueryStart(QuestionA, documentId, "k1", order, bulkCloser)
  \/ QuerySearch
  \/ QueryGenerate(AnswerA)

\* Other documents' points are in the store.
InitQuery == Init /\ bulkVectors = VECTOR_SCROLL_LIMIT

SpecQuery == InitQuery /\ [][NextQuery]_vars

\* processDocument called with any arguments, on an existing or a missing file.
DirectFile == <<"/", "t", "m", "p", "/", "9", "-", "x">>

NextDirect ==
  \/ \E u \in Uploads, source \in DirectSources, type \in DirectTypes,
        apiKey \in {NoKey, "k1"} :
       CallProcessDocument(u, source, type, apiKey)
  \/ \E u \in Uploads : PD_Load(u)
  \/ \E u \in Uploads : PD_Ensure(u)
  \/ \E u \in Uploads : PD_Batch(u)
  \/ \E u \in Uploads : PD_Metadata(u)

InitDirect ==
  /\ InitMain
  /\ bulkVectors = 0
  /\ files \in {{}, {DirectFile}}
  /\ upserts = NoUpserts
  /\ chunkText = NoChunkText
  /\ RestInit

SpecDirect == InitDirect /\ [][NextDirect]_vars

\* ------------------------------------- the prompt of a query on its own

\* Chunk texts: an empty one, one of several lines, one that holds a blank
\* line itself.
PromptTexts ==
  {<<>>, <<"a">>, <<"b", "\n", "c">>, <<"d", "\n", "\n", "e">>}
Questions == {QuestionA, <<"a">>}
Answers == {AnswerA, <<>>, <<"n", "\n", "\n", "o">>}

\* A search result of the document whose payload text is given.
ScoredPoint(documentId, k, text) ==
  [id |-> derivePointId(PointIdStr(documentId, k)),
   payload |-> [text |-> text, documentId |-> documentId, chunk |-> k,
                originalId |-> PointIdStr(documentId, k)]]

\* The search results the store may return for a document: one to three of
\* its chunks, in any order of their texts.
SearchResultsOf(documentId) ==
  {[n \in 1..k |-> ScoredPoint(documentId, order[n] - 1, texts[order[n]])] :
     k \in 1..SEARCH_LIMIT,
     texts \in [1..SEARCH_LIMIT -> PromptTexts],
     order \in {f \in [1..SEARCH_LIMIT -> 1..SEARCH_LIMIT] :
                  \A i, j \in 1..SEARCH_LIMIT : i # j => f[i] # f[j]}}

\* generateResponse once its search has returned.
InitPrompt ==
  /\ now = 0 /\ ticks = 0 /\ bulkVectors = 0
  /\ collections = {vectorCollection, metadataCollection}
  /\ vectors = {} /\ metadata = {} /\ usedUuids = {Uuid(1)} /\ files = {}
  /\ upload = [u \in Uploads |-> IdleUpload]
  /\ sweep = IdleSweep /\ del = IdleDelete
  /\ upserts = NoUpserts /\ chunkText = NoChunkText
  /\ RestInit
  /\ \E text \in Questions, results \in SearchResultsOf(Uuid(1)) :
       query = [IdleQuery EXCEPT !.pc = "generate", !.documentId = Uuid(1),
                                 !.text = text, !.path = "filtered",
                                 !.results = results]

NextPrompt == \E generatedText \in Answers : QueryGenerate(generatedText)

SpecPrompt == InitPrompt /\ [][NextPrompt]_vars

\* ------------------------------------------------- the chunker on its own

Alphabet == <<"a", "b", "c", "d", "e", "f", "g">>

\* A text of the given length whose characters repeat with period 7.
TextOf(length, shift) ==
  [i \in 1..length |-> Alphabet[((i + shift) % Len(Alphabet)) + 1]]

\* The lengths around every multiple of 100 up to MaxTextLen.
ChunkerLengths ==
  {n \in 0..MaxTextLen : n % 100 \in {0, 1, 99} \/ n = MaxTextLen}

InitChunker ==
  /\ now = 0 /\ ticks = 0 /\ collections = {} /\ bulkVectors = 0
  /\ vectors = {} /\ metadata = {} /\ usedUuids = {} /\ files = {}
  /\ upload = [u \in Uploads |-> IdleUpload]
  /\ sweep = IdleSweep /\ del = IdleDelete /\ query = IdleQuery
  /\ upserts = NoUpserts
  /\ RestInit
  /\ \E length \in ChunkerLengths, shift \in {0, 3} :
       chunkText = [text |-> TextOf(length, shift), chunks |-> <<>>,
                    done |-> FALSE]

\* Lines 155-172 on one document.
ChunkSplit ==
  /\ ~chunkText.done
  /\ chunkText' = [chunkText EXCEPT !.chunks = SplitText(chunkText.text),
                                    !.done = TRUE]
  /\ UNCHANGED <<now, ticks, storeVars, files, usedUuids, upload, sweep, del,
                 query, upserts,
                 server, ensuring, listing>>

NextChunker == ChunkSplit

SpecChunker == InitChunker /\ [][NextChunker]_vars

\* ------------------------------------------ repeated upserts of one chunk

UpsertDocs == Uuids
UpsertLengths == {1, chunkSize - overlap + 1}

InitUpsert ==
  /\ now = 0 /\ ticks = 0 /\ bulkVectors = 0
  /\ collections = {vectorCollection, metadataCollection}
  /\ vectors = {} /\ metadata = {} /\ usedUuids = {} /\ files = {}
  /\ upload = [u \in Uploads |-> IdleUpload]
  /\ sweep = IdleSweep /\ del = IdleDelete /\ query = IdleQuery
  /\ chunkText = NoChunkText
  /\ RestInit
  /\ upserts = [count |-> [d \in UpsertDocs |-> 0], last |-> None]

\* The batch of lines 195-227 for the chunks of a text of the given length,
\* under the document id given.
UpsertBatch(documentId, length) ==
  /\ upserts.count[documentId] < MaxRepeat
  /\ vectors' = Upsert(vectors,
        BatchPoints(documentId, 0, Len(SplitRanges(length)), length))
  /\ upserts' = [count |-> [upserts.count EXCEPT ![documentId] = @ + 1],
                 last |-> <<documentId, Len(SplitRanges(length))>>]
  /\ UNCHANGED <<now, ticks, collections, metadata, bulkVectors, files,
                 usedUuids, upload, sweep, del, query, chunkText,
                 server, ensuring, listing>>

NextUpsert ==
  \E documentId \in UpsertDocs, length \in UpsertLengths :
    UpsertBatch(documentId, length)

SpecUpsert == InitUpsert /\ [][NextUpsert]_vars

\* ------------------------------------------------------------------ claims

InSeq(x, seq) == \E n \in 1..Len(seq) : seq[n] = x

\* C6 (SpecChunker): a text of length L > 0 is split into ceil(L / 1800)
\* chunks; chunk k is the substring at offset 1800 * k of length
\* min(2000, L - 1800 * k); no chunk is empty; a text of 4500 characters
\* gives the three chunks at offsets 0, 1800 and 3600.
C6_ChunkCountAndOffsets ==
  (chunkText.done /\ Len(chunkText.text) > 0) =>
    LET text == chunkText.text
        L == Len(text)
        chunks == chunkText.chunks
    IN /\ Len(chunks) = (L + 1799) \div 1800
       /\ \A k \in 0..(Len(chunks) - 1) :
            /\ chunks[k + 1] =
                 SubSeq(text, 1800 * k + 1,
                        1800 * k + (IF L - 1800 * k < 2000 THEN L - 1800 * k
                                                          ELSE 2000))
            /\ Len(chunks[k + 1]) > 0
       /\ L = 4500 =>
            chunks = <<SubSeq(text, 1, 2000), SubSeq(text, 1801, 3800),
                       SubSeq(text, 3601, 4500)>>

\* The 4500-character text has been split into its three chunks.
C6_Witness ==
  /\ chunkText.done
  /\ Len(chunkText.text) = 4500
  /\ Len(chunkText.chunks) = 3
  /\ Len(chunkText.chunks[3]) = 900

\* The chunks joined in index order, each but the first without the leading
\* characters it shares with the chunk before it (200, or the whole chunk
\* when it is shorter).
RECURSIVE JoinWithoutOverlap(_, _)
JoinWithoutOverlap(chunks, k) ==
  IF k > Len(chunks)
    THEN <<>>
    ELSE LET c == chunks[k]
             shared == IF k = 1 THEN 0 ELSE IF Len(c) < 200 THEN Len(c) ELSE 200
         IN SubSeq(c, shared + 1, Len(c)) \o JoinWithoutOverlap(chunks, k + 1)

\* C7 (SpecChunker): the chunk texts joined in index order, with the leading
\* overlap of every chunk but the first removed, are the original text.
C7_ChunksReconstructText ==
  chunkText.done => JoinWithoutOverlap(chunkText.chunks, 1) = chunkText.text

\* A text whose last chunk is shorter than the overlap has been split and
\* joined back.
C7_Witness ==
  /\ chunkText.done
  /\ Len(chunkText.text) = 3700
  /\ Len(chunkText.chunks) = 3
  /\ Len(chunkText.chunks[3]) = 100
  /\ JoinWithoutOverlap(chunkText.chunks, 1) = chunkText.text

\* C5 (SpecUpsert): however often the chunks of a document are upserted, the
\* collection holds at most one point for a (documentId, chunkIndex) pair,
\* and exactly one for every pair of the batch upserted last.
C5_OnePointPerChunk ==
  /\ \A p \in vectors, q \in vectors :
       (p.payload.documentId = q.payload.documentId
          /\ p.payload.chunk = q.payload.chunk) => p = q
  /\ upserts.last # None =>
       \A k \in 0..(upserts.last[2] - 1) :
         Cardinality({p \in vectors : /\ p.payload.documentId = upserts.last[1]
                                      /\ p.payload.chunk = k}) = 1

\* A document upserted twice, with texts of different lengths, whose chunk 0
\* is stored once.
C5_Witness ==
  /\ upserts.last # None
  /\ upserts.count[upserts.last[1]] = 2
  /\ upserts.last[2] = 1
  /\ \E p \in vectors : /\ p.payload.documentId = upserts.last[1]
                        /\ p.payload.chunk = 1
  /\ Cardinality({p \in vectors : /\ p.payload.documentId = upserts.last[1]
                                  /\ p.payload.chunk = 0}) = 1

\* C9 (SpecDirect): the step that ends the validation of a call throws
\* API_KEY_MISSING for a missing credential, UNSUPPORTED_TYPE for a type other
\* than pdf and url, INVALID_URL for a url that does not start with http://
\* or https://, FILE_NOT_FOUND for a pdf path that does not exist; the step
\* leaves the store as it was, and the call has created no collection and
\* upserted no point.
C9_ValidationRejects ==
  [][\A u \in Uploads :
       (upload[u].pc = "process" /\ upload'[u].pc # "process") =>
         LET r == upload[u]
             after == upload'[u]
             Rejected(code) ==
               /\ after.pc = "done"
               /\ after.result = "error"
               /\ after.code = code
               /\ after.documentId = None
               /\ ~after.ensured /\ after.upserted = 0 /\ ~after.wroteMetadata
               /\ collections' = collections
               /\ vectors' = vectors
               /\ metadata' = metadata
         IN /\ r.apiKey = NoKey => Rejected("API_KEY_MISSING")
            /\ (r.apiKey # NoKey /\ r.type \notin {"pdf", "url"}) =>
                 Rejected("UNSUPPORTED_TYPE")
            /\ (r.apiKey # NoKey /\ r.type = "url"
                  /\ ~HasPrefix(r.source, <<"h", "t", "t", "p", ":", "/", "/">>)
                  /\ ~HasPrefix(r.source,
                                <<"h", "t", "t", "p", "s", ":", "/", "/">>)) =>
                 Rejected("INVALID_URL")
            /\ (r.apiKey # NoKey /\ r.type = "pdf" /\ r.source \notin files) =>
                 Rejected("FILE_NOT_FOUND")]_vars

\* Two calls rejected by the validation, one for its url and one for its
\* path, and an empty store.
C9_Witness ==
  /\ \E u \in Uploads : upload[u].pc = "done" /\ upload[u].code = "INVALID_URL"
  /\ \E u \in Uploads : upload[u].pc = "done" /\ upload[u].code = "FILE_NOT_FOUND"
  /\ collections = {} /\ vectors = {} /\ metadata = {}

\* C10 (Spec): a request has written its metadata record only after it has
\* upserted every chunk of its text; a request that ended in failure has
\* written none; every metadata record of the store was written by a request
\* that had upserted all its chunks.
C10_MetadataAfterChunks ==
  /\ \A u \in Uploads :
       /\ upload[u].wroteMetadata =>
            /\ upload[u].upserted = upload[u].nChunks
            /\ upload[u].nChunks =
                 (upload[u].textLength + 1799) \div 1800
       /\ upload[u].result = "error" => ~upload[u].wroteMetadata
  /\ \A m \in metadata :
       \E u \in Uploads : /\ upload[u].documentId = m.payload.originalId
                          /\ upload[u].wroteMetadata
                          /\ upload[u].upserted = upload[u].nChunks

\* One request has written its record after its two batches; the other one
\* failed after its first batch and has no record.
C10_Witness ==
  \E u \in Uploads, v \in Uploads :
    /\ upload[u].wroteMetadata
    /\ upload[u].nChunks = 6 /\ upload[u].upserted = 6
    /\ upload[v].code = "VECTOR_CREATION_FAILED"
    /\ upload[v].upserted = 5 /\ upload[v].nChunks = 6
    /\ \A m \in metadata : m.payload.originalId # upload[v].documentId

\* C8 (Spec): a request whose extracted text is empty never goes on to the
\* store: it ends with the code EMPTY_CONTENT, returns no document id and
\* writes no metadata record and no chunk.
C8_EmptyContentRejected ==
  \A u \in Uploads :
    upload[u].textLength = 0 =>
      /\ upload[u].pc = "done"
      /\ upload[u].result = "error"
      /\ upload[u].code = "EMPTY_CONTENT"
      /\ upload[u].documentId = None
      /\ ~upload[u].wroteMetadata
      /\ upload[u].upserted = 0

\* C3 (Spec): once deleteDocument has returned success, no point of
\* document_vectors has the payload documentId of the request and no record
\* of document_metadata has its originalId, whatever else the collections
\* hold.
C3_DeleteRemovesDocument ==
  (del.pc = "done" /\ del.result = "ok") =>
    /\ \A p \in vectors : p.payload.documentId # del.documentId
    /\ \A m \in metadata : m.payload.originalId # del.documentId

C1_SweepEvictsExpired ==
  (sweep.pc = "done" /\ sweep.result = "ok") =>
    \A n \in 1..Len(sweep.points) :
      LET point == sweep.points[n]
      IN (/\ sweep.now - DateParse(point.payload.lastAccessed) > 86400000
          /\ ~InSeq(point.id, sweep.failedDocs)) =>
           /\ \A m \in metadata :
                m.payload.originalId # point.payload.originalId
           /\ \A p \in vectors :
                p.payload.documentId # point.payload.originalId

\* C2 (SpecSweep): once a query against a document has succeeded at time t,
\* the record of the document has a lastAccessed of at least t, and a sweep
\* that starts at or after t and before t + 24 hours does not evict the
\* document.
C2_AccessKeepsDocument ==
  (query.pc = "done" /\ query.result = "ok") =>
    /\ \A m \in metadata :
         m.payload.originalId = query.documentId =>
           DateParse(m.payload.lastAccessed) >= query.at
    /\ (sweep.pc # "idle" /\ sweep.now >= query.at
          /\ sweep.now < query.at + 86400000) =>
         \A n \in 1..Len(sweep.points) :
           sweep.points[n].payload.originalId = query.documentId =>
             ~InSeq(sweep.points[n].id, sweep.deletedDocs)

\* C11 (Spec): one round of the batch loop either stores the next chunks of
\* the request, at most 5 of them and none beyond them, or fails: then the
\* step stores nothing and removes nothing, no chunk of the failed batch or
\* of a later one is in the store, the request ends with
\* VECTOR_CREATION_FAILED carrying the error of the failed call, and it never
\* runs again.
C11_BatchFailureKeepsEarlierBatches ==
  [][\A u \in Uploads :
       LET r == upload[u]
           after == upload'[u]
           Stored(k) == \E p \in vectors' : /\ p.payload.documentId = r.documentId
                                           /\ p.payload.chunk = k
       IN /\ (r.pc = "embed" /\ r.i < r.nChunks /\ after # r) =>
               \/ /\ after.pc = "embed"
                  /\ after.upserted - r.upserted \in 1..5
                  /\ after.upserted = r.upserted + 5 \/ after.upserted = r.nChunks
                  /\ \A k \in r.upserted..(after.upserted - 1) : Stored(k)
                  /\ \A k \in after.upserted..(r.nChunks - 1) : ~Stored(k)
               \/ /\ after.pc = "done"
                  /\ after.result = "error"
                  /\ after.code = "VECTOR_CREATION_FAILED"
                  /\ after.cause \in {"embedDocuments", "upsert"}
                  /\ after.upserted = r.upserted
                  /\ vectors' = vectors
                  /\ \A k \in r.upserted..(r.nChunks - 1) : ~Stored(k)
          /\ r.pc = "done" => after = r]_vars

\* A request whose second batch failed in embedDocuments: its first five
\* chunks are stored, its sixth is not.
C11_Witness ==
  \E u \in Uploads :
    /\ upload[u].pc = "done"
    /\ upload[u].cause = "embedDocuments"
    /\ upload[u].nChunks = 6
    /\ \A k \in 0..4 : \E p \in vectors :
         p.payload.documentId = upload[u].documentId /\ p.payload.chunk = k
    /\ \A p \in vectors :
         p.payload.documentId = upload[u].documentId => p.payload.chunk # 5

C14_FallbackEqualsFiltered ==
  [][(query.pc = "search" /\ query'.path = "fallback") =>
       LET OfQuery(p) == p.payload.documentId = query.documentId
           ranked == SelectSeq(BySimilarity(vectors, query.order), OfQuery)
           top == SubSeq(ranked, 1, IF Len(ranked) < 3 THEN Len(ranked) ELSE 3)
       IN /\ Len(ranked) <= 20
          /\ {query'.results[n] : n \in 1..Len(query'.results)}
               = {top[n] : n \in 1..Len(top)}]_vars

\* C15 (SpecQuery): a query whose search returned no chunk ends with the
\* code NO_CONTEXT_FOUND, and the generation has not been called.
C15_NoContextFound ==
  (query.pc = "done" /\ query.path \in {"filtered", "fallback"}
     /\ query.results = <<>>) =>
    /\ query.result = "error"
    /\ query.code = "NO_CONTEXT_FOUND"
    /\ ~query.generated

\* C16 (SpecCleanup): every round of the sweep's loop moves on to the next
\* record of the snapshot.  A record older than 24 hours ends either in
\* deletedDocs, its metadata point gone, or in failedDocs, and it is in
\* failedDocs whenever its metadata point is still stored; a younger record
\* ends in neither.  After the last record the sweep returns success with
\* deletedCount the length of deletedDocs.
C16_SweepSurvivesFailures ==
  [][(sweep.pc = "loop" /\ sweep' # sweep) =>
       LET point == sweep.points[sweep.next]
           old == sweep.now - DateParse(point.payload.lastAccessed) > 86400000
           asDeleted == /\ sweep'.deletedDocs = Append(sweep.deletedDocs, point.id)
                        /\ sweep'.failedDocs = sweep.failedDocs
                        /\ \A m \in metadata' : m.id # point.id
           asFailed == /\ sweep'.failedDocs = Append(sweep.failedDocs, point.id)
                       /\ sweep'.deletedDocs = sweep.deletedDocs
           untouched == /\ sweep'.failedDocs = sweep.failedDocs
                        /\ sweep'.deletedDocs = sweep.deletedDocs
                        /\ metadata' = metadata /\ vectors' = vectors
       IN /\ sweep'.next = sweep.next + 1
          /\ sweep'.points = sweep.points
          /\ IF old THEN asDeleted \/ asFailed ELSE untouched
          /\ (old /\ \E m \in metadata' : m.id = point.id) => asFailed
          /\ IF sweep.next < Len(sweep.points)
               THEN sweep'.pc = "loop"
               ELSE /\ sweep'.pc = "done"
                    /\ sweep'.result = "ok"
                    /\ sweep'.deletedCount = Len(sweep'.deletedDocs)]_vars

\* A sweep over two old records has returned: the deletion of the first
\* failed, the second was deleted all the same.
C16_Witness ==
  /\ sweep.pc = "done" /\ sweep.result = "ok"
  /\ Len(sweep.points) = 2
  /\ sweep.failedDocs = <<sweep.points[1].id>>
  /\ sweep.deletedDocs = <<sweep.points[2].id>>
  /\ sweep.deletedCount = 1

\* C17 (SpecServer): in every deployment mode, once initServer has run, the
\* sweep has been run once and the timer that runs it every 24 hours is
\* armed.
C17_SweepScheduledInEveryMode ==
  server.pc = "started" =>
    /\ server.timer
    /\ server.runs >= 1

\* C18 (SpecEnsure): a call of ensureCollection that finds the collection
\* writes nothing; a call that finds it missing ends without an error, also
\* when another call found it missing too and created it first, and then the
\* collection exists and exactly one call has created it, with 768
\* dimensions and the Cosine distance.
C18_EnsureIsIdempotent ==
  \A c \in Callers :
    ensuring[c].pc = "done" =>
      /\ ensuring[c].exists => ~ensuring[c].wrote
      /\ ~ensuring[c].exists =>
           /\ ensuring[c].result = "ok"
           /\ ensuring[c].name \in collections
           /\ Cardinality({d \in Callers :
                             /\ ensuring[d].name = ensuring[c].name
                             /\ ensuring[d].wrote
                             /\ ensuring[d].size = 768
                             /\ ensuring[d].distance = "Cosine"}) = 1

\* C19 (Spec): a delete request for an id of which the store holds no chunk
\* and no metadata record is answered with 404, or with the error of a store
\* call that failed, never with success; a delete request for a document in
\* the store whose store calls succeed is answered with 200.
C19_DeleteOfUnknownIsNotFound ==
  del.pc = "done" =>
    /\ ~del.existed =>
         \/ del.status = 404
         \/ del.status = 500 /\ del.code = "DOCUMENT_DELETION_FAILED"
    /\ (del.existed /\ del.code = "none") => del.status = 200

\* C20 (SpecList): getUploadedFiles(apiKey) whose scroll succeeds returns, in
\* the order of the scroll, the records among the first 100 of
\* document_metadata whose apiKeyHash is sha256(apiKey), each under the
\* documentId a completed ingestion with that credential returned; whether
\* the scroll succeeds or not, it returns no record of another credential.
C20_ListIsScopedToCredential ==
  [][(listing.pc = "idle" /\ listing'.pc = "done"
        /\ listing'.apiKey # NoKey) =>
       LET key == listing'.apiKey
           listed == listing'.files
           all == SortById(metadata)
           snapshot == SubSeq(all, 1, IF Len(all) < 100 THEN Len(all) ELSE 100)
           Mine(p) == p.payload.apiKeyHash = <<"sha256", key>>
           mine == SelectSeq(snapshot, Mine)
       IN /\ listing'.result = "ok"
          /\ listing'.scrolled =>
               /\ Len(listed) = Len(mine)
               /\ \A n \in 1..Len(mine) :
                    /\ listed[n].documentId = mine[n].payload.originalId
                    /\ listed[n].originalFilename = mine[n].payload.originalFilename
                    /\ listed[n].uploadedAt = mine[n].payload.uploadedAt
                    /\ listed[n].lastAccessed = mine[n].payload.lastAccessed
          /\ \A n \in 1..Len(listed) :
               /\ \E m \in metadata : /\ m.payload.originalId = listed[n].documentId
                                      /\ m.payload.apiKeyHash = <<"sha256", key>>
               /\ \E u \in Uploads : /\ upload[u].documentId = listed[n].documentId
                                     /\ upload[u].apiKey = key
                                     /\ upload[u].result = "ok"
                                     /\ ~upload[u].isDuplicate
               /\ \A u \in Uploads :
                    (upload[u].apiKey # key /\ ~upload[u].isDuplicate) =>
                      upload[u].documentId # listed[n].documentId]_vars

\* A listing of one file for its credential while the store holds a record
\* of the other credential as well.
C20_Witness ==
  /\ listing.pc = "done" /\ listing.scrolled
  /\ listing.apiKey = "k1"
  /\ Len(listing.files) = 1
  /\ Cardinality(metadata) = 2
  /\ \E m \in metadata : m.payload.apiKeyHash = <<"sha256", "k2">>

\* C21 (SpecList): a failure of a store call reaches the caller of the
\* operation as an error: a route request whose duplicate check could not
\* scroll the metadata collection ends with an error and is not processed,
\* and a getUploadedFiles call whose scroll failed ends with an error.
C21_StoreFailuresReachCaller ==
  /\ \A u \in Uploads :
       (upload[u].via = "route" /\ ~upload[u].dupOk) =>
         /\ upload[u].pc = "done"
         /\ upload[u].result = "error"
  /\ (listing.pc = "done" /\ listing.apiKey # NoKey /\ ~listing.scrolled) =>
       listing.result = "error"

C23_SweepSparesIngestion ==
  [][(sweep.pc = "loop" /\ sweep' # sweep) =>
       \A u \in Uploads :
         LET d == upload[u].documentId
             ChunksOf(coll) == {p \in coll : p.payload.documentId = d}
             RecordOf(coll) == {m \in coll : m.payload.originalId = d}
         IN (/\ d # None
             /\ ~upload[u].isDuplicate
             /\ \A n \in 1..Len(sweep.points) :
                  sweep.points[n].payload.originalId # d) =>
              /\ ChunksOf(vectors') = ChunksOf(vectors)
              /\ RecordOf(metadata') = RecordOf(metadata)]_vars

\* C24 (SpecBootstrap): a call of ensureCollection whose payload-index
\* creation failed has ended without an error, it had created the collection,
\* and the collection exists; the index creation is attempted only by a call
\* that has just created the collection, never by one that found it or whose
\* creation was rejected.
C24_IndexFailureIsNotFatal ==
  \A c \in Callers :
    LET e == ensuring[c]
    IN /\ e.index = "failed" =>
            /\ e.pc = "done"
            /\ e.result = "ok"
            /\ e.name \in collections
       /\ (e.pc = "index" \/ e.index # "none") =>
            /\ e.wrote
            /\ ~e.exists
            /\ e.name \in collections
       /\ (e.pc = "done" /\ ~e.wrote) => e.index = "none"

\* Both collections were created by calls whose index creation failed, and on
\* them a request was checked for a duplicate, ingested with its six chunks
\* and its record, and answered a query from three chunks.
C24_Witness ==
  /\ \E c \in Callers, d \in Callers :
       /\ ensuring[c].name = "document_vectors"
       /\ ensuring[c].index = "failed"
       /\ ensuring[d].name = "document_metadata"
       /\ ensuring[d].index = "failed"
  /\ upload["u1"].result = "ok"
  /\ Cardinality({p \in vectors :
                    p.payload.documentId = upload["u1"].documentId}) = 6
  /\ \E m \in metadata : m.payload.originalId = upload["u1"].documentId
  /\ query.pc = "done" /\ query.result = "ok"
  /\ query.path = "filtered" /\ Len(query.results) = 3

\* C25 (SpecPrompt): the context of a query is the payload texts of the
\* chunks its search returned, in the order of the results, with a blank
\* line between one text and the next; the prompt holds that context and,
\* after it, the question; and the answer returned is the text the
\* generation produced.
C25_ContextIsJoinedTexts ==
  [][(query.pc = "generate" /\ query'.pc = "done") =>
       LET results == query.results
           T(n) == results[n].payload.text
           expected ==
             IF Len(results) = 1 THEN T(1)
             ELSE IF Len(results) = 2 THEN T(1) \o <<"\n", "\n">> \o T(2)
             ELSE T(1) \o <<"\n", "\n">> \o T(2) \o <<"\n", "\n">> \o T(3)
           prompt == query'.prompt
           At(part, i) == /\ i + Len(part) - 1 <= Len(prompt)
                          /\ SubSeq(prompt, i, i + Len(part) - 1) = part
       IN /\ Len(results) \in 1..3
          /\ query'.context = expected
          /\ \E i \in 1..(Len(prompt) + 1) :
               /\ At(expected, i)
               /\ \E j \in (i + Len(expected))..(Len(prompt) + 1) :
                    At(query.text, j)
          /\ query'.result = "ok" => query'.answer = query'.response.text]_vars

\* A query answered from three chunks whose texts were returned out of the
\* order of their chunk numbers, one of them empty; the answer holds a blank
\* line.
C25_Witness ==
  /\ query.pc = "done" /\ query.result = "ok"
  /\ Len(query.results) = 3
  /\ query.results[1].payload.chunk > query.results[2].payload.chunk
  /\ query.results[2].payload.text = <<>>
  /\ query.results[1].payload.text # query.results[3].payload.text
  /\ query.response.text = <<"n", "\n", "\n", "o">>
  /\ query.answer = <<"n", "\n", "\n", "o">>

\* C26 (Spec): a chunk or a metadata record leaves the store, removed or
\* replaced, only in a step of an operation on the document its payload
\* names: a step of the ingestion of that document or of a deleteDocument
\* call for it.
C26_NoCrossDocumentWrites ==
  [][LET Acting(d) ==
           \/ del' # del /\ del.documentId = d
           \/ \E u \in Uploads : upload'[u] # upload[u] /\ upload[u].documentId = d
     IN /\ \A p \in vectors \ vectors' : Acting(p.payload.documentId)
        /\ \A m \in metadata \ metadata' : Acting(m.payload.originalId)]_vars

\* C27 (Spec): in every reachable state, whatever the interleaving of the
\* requests, document_metadata holds at most one record of an apiKeyHash and
\* an originalFilename.
C27_OneRecordPerName ==
  \A m \in metadata, n \in metadata :
    (/\ m.payload.apiKeyHash = n.payload.apiKeyHash
     /\ m.payload.originalFilename = n.payload.originalFilename) => m = n

====
